---------------------------- MODULE Spec2Model ----------------------------
(***************************************************************************)
(* A model of src/src/lib/tuner.ts: the McLeod-style pitch detector        *)
(* (detectPitch, computeNsdf, the peak selector and the parabolic          *)
(* refinement) and the frequency -> note mapping (frequencyToMidiExact,    *)
(* midiToFrequency, analyseFrequency).                                     *)
(*                                                                         *)
(* Samples.  A sample is a small integer c standing for the amplitude c*u, *)
(* u a power of two with |c|*u <= 1.  Every product and every sum the code *)
(* forms on such a buffer is a small integer multiple of u^2, which        *)
(* binary64 represents exactly, so integer arithmetic is what the code     *)
(* computes on these inputs.  minRms is given in the same unit.            *)
(*                                                                         *)
(* Numbers.  A JavaScript Number that is the result of a division is kept  *)
(* as an exact fraction [k |-> "num", n, d] (d > 0); NaN, the infinities   *)
(* and undefined (an out-of-range typed-array read) are values of their    *)
(* own kind and compare as in JavaScript.                                  *)
(***************************************************************************)
EXTENDS Integers, Sequences, FiniteSets, TLC

\* ------------------------------------------------------------- bounds
\* Longest sample buffer drawn.
MaxLen == 6

\* ------------------------------------------------- program constants
\* detectPitch: maxTau = floor(sampleRate / 50), minTau = floor(sampleRate / 1200).
LowestHz == 50
HighestHz == 1200

VARIABLES
    op,          \* the exported function this run calls
    pc,          \* "call" before the call, "done" after it returned
    buffer,      \* detectPitch/computeNsdf argument: [0..n-1 -> sample]
    sampleRate,  \* detectPitch argument (Hz, an integer)
    minRms,      \* detectPitch argument, in amplitude units
    nsdf,        \* the array computeNsdf returned ([0..n-1 -> Number]), or <<>>
    sel,         \* what the peak selector found: start, bestTau, bestVal
    hz,          \* frequency argument of the pitch mapper (a log-frequency position)
    midi,        \* MIDI note number argument of the pitch mapper
    locals,      \* analyseFrequency's consts: midiExact, midiRounded, noteIndex
    ret,         \* the value the call returned
    prev,        \* the caller's note of the call before this one: arguments, result
    session,     \* startTuner sessions: [id -> what the call holds and has done]
    onResultCalls, \* the arguments of the onResult calls of the latest polling tick
    ui           \* the Tuner component: its signals, stopFn and pending handleStart

vars == <<op, pc, buffer, sampleRate, minRms, nsdf, sel, hz, midi, locals, ret, prev,
          session, onResultCalls, ui>>

\* ------------------------------------------------------------ Numbers
Num(n, d) == IF d < 0 THEN [k |-> "num", n |-> -n, d |-> -d]
                      ELSE [k |-> "num", n |-> n, d |-> d]
IntNum(n) == [k |-> "num", n |-> n, d |-> 1]
NaN == [k |-> "nan", n |-> 0, d |-> 1]
Undefined == [k |-> "undefined", n |-> 0, d |-> 1]
PosInfinity == [k |-> "inf", n |-> 1, d |-> 1]
NegInfinity == [k |-> "inf", n |-> -1, d |-> 1]
Null == [k |-> "null", n |-> 0, d |-> 1]

IsNum(a) == a.k = "num"
IsInf(a) == a.k = "inf"
\* ToNumber(undefined) is NaN: every comparison with it is false.
Comparable(a) == a.k \in {"num", "inf"}

\* a < b on Numbers (false when either side is NaN or undefined).
Lt(a, b) ==
    /\ Comparable(a) /\ Comparable(b)
    /\ IF IsNum(a) /\ IsNum(b) THEN a.n * b.d < b.n * a.d
       ELSE IF IsInf(a) /\ IsInf(b) THEN a.n < b.n
       ELSE IF IsInf(a) THEN a.n < 0
       ELSE b.n > 0
Gt(a, b) == Lt(b, a)
EqNum(a, b) ==
    /\ Comparable(a) /\ Comparable(b)
    /\ IF IsNum(a) /\ IsNum(b) THEN a.n * b.d = b.n * a.d
       ELSE IsInf(a) /\ IsInf(b) /\ a.n = b.n
Ge(a, b) == Gt(a, b) \/ EqNum(a, b)
Le(a, b) == Lt(a, b) \/ EqNum(a, b)

RECURSIVE Gcd(_, _)
Gcd(a, b) == IF b = 0 THEN a ELSE Gcd(b, a % b)
Abs(x) == IF x < 0 THEN -x ELSE x
\* The same fraction in lowest terms.
Reduce(a) ==
    IF ~IsNum(a) THEN a
    ELSE LET g == Gcd(Abs(a.n), a.d) IN Num(a.n \div g, a.d \div g)

Sign(x) == IF x < 0 THEN -1 ELSE IF x > 0 THEN 1 ELSE 0

\* a - b, a * b and a / b on Numbers, with IEEE-754's special values.
Sub(a, b) ==
    IF IsNum(a) /\ IsNum(b) THEN Reduce(Num(a.n * b.d - b.n * a.d, a.d * b.d))
    ELSE IF ~Comparable(a) \/ ~Comparable(b) THEN NaN
    ELSE IF IsInf(a) /\ IsInf(b) THEN (IF a.n = b.n THEN NaN ELSE a)
    ELSE IF IsInf(a) THEN a
    ELSE IF b.n > 0 THEN NegInfinity ELSE PosInfinity
Mul(a, b) ==
    IF IsNum(a) /\ IsNum(b) THEN Reduce(Num(a.n * b.n, a.d * b.d))
    ELSE IF ~Comparable(a) \/ ~Comparable(b) THEN NaN
    ELSE IF a.n = 0 \/ b.n = 0 THEN NaN
    ELSE IF Sign(a.n) = Sign(b.n) THEN PosInfinity ELSE NegInfinity
Div(a, b) ==
    IF IsNum(a) /\ IsNum(b) THEN
        IF b.n = 0 THEN (IF a.n = 0 THEN NaN
                         ELSE IF a.n > 0 THEN PosInfinity ELSE NegInfinity)
        ELSE Reduce(Num(a.n * b.d * Sign(b.n), a.d * Abs(b.n)))
    ELSE IF ~Comparable(a) \/ ~Comparable(b) THEN NaN
    ELSE IF IsInf(a) /\ IsInf(b) THEN NaN
    ELSE IF IsInf(a) THEN (IF Sign(a.n) * (IF b.n < 0 THEN -1 ELSE 1) > 0
                           THEN PosInfinity ELSE NegInfinity)
    ELSE IntNum(0)

\* ------------------------------------------------------ typed arrays
Length(a) == Cardinality(DOMAIN a)
\* a[i]: a read outside 0..length-1 gives undefined.
At(a, i) == IF i \in DOMAIN a THEN a[i] ELSE Undefined

\* ------------------------------------------------------- computeNsdf
RECURSIVE SumSquares(_, _)
\* sum of buffer[j]^2 for j in 0..upTo-1 (the loops at tuner.ts 78-80, 139).
SumSquares(buf, upTo) ==
    IF upTo = 0 THEN 0
    ELSE SumSquares(buf, upTo - 1) + buf[upTo - 1] * buf[upTo - 1]

RECURSIVE Autocorrelation(_, _, _)
\* r: sum of buffer[j] * buffer[j + tau] for j in 0..upTo-1 (tuner.ts 85-88).
Autocorrelation(buf, tau, upTo) ==
    IF upTo <= 0 THEN 0
    ELSE Autocorrelation(buf, tau, upTo - 1) + buf[upTo - 1] * buf[upTo - 1 + tau]

RECURSIVE DenominatorNotDoubled(_, _)
\* Mutant: the statement m *= 2 (tuner.ts 81) is left out.
DenominatorNotDoubled(buf, tau) ==
    IF tau = 0 THEN SumSquares(buf, Length(buf))
    ELSE DenominatorNotDoubled(buf, tau - 1)
         - (buf[tau - 1] * buf[tau - 1]
            + buf[Length(buf) - tau] * buf[Length(buf) - tau])

RECURSIVE Denominator(_, _)
\* m after the update of iteration tau: twice the total energy at tau = 0,
\* then less the two departing samples' squares per step (tuner.ts 77-81, 90-92).
Denominator(buf, tau) ==
    IF tau = 0 THEN 2 * SumSquares(buf, Length(buf))
    ELSE Denominator(buf, tau - 1)
         - (buf[tau - 1] * buf[tau - 1]
            + buf[Length(buf) - tau] * buf[Length(buf) - tau])

\* Mutant: the quotient is taken without the test m === 0.
NsdfAtUnguarded(buf, tau) ==
    LET r == Autocorrelation(buf, tau, Length(buf) - tau)
        m == Denominator(buf, tau)
    IN Div(IntNum(2 * r), IntNum(m))

\* nsdf[tau] = m === 0 ? 0 : (2 * r) / m.  The Float32Array store rounds the
\* quotient to binary32; fractions this small that differ stay different
\* after the rounding, so the fraction stands for the stored value.
NsdfAt(buf, tau) ==
    LET r == Autocorrelation(buf, tau, Length(buf) - tau)
        m == Denominator(buf, tau)
    IN IF m = 0 THEN IntNum(0) ELSE Div(IntNum(2 * r), IntNum(m))

computeNsdf(buf) == [tau \in 0..(Length(buf) - 1) |-> NsdfAt(buf, tau)]

\* ------------------------------------------------------ peak selector
\* The double literals 0.8 and 0.2.  A stored nsdf value is a binary32, and
\* fround(4/5) = 0.800000011920929 > 0.8, fround(1/5) = 0.2000000029 > 0.2:
\* a quotient of exactly 4/5 compares greater than 0.8 once stored.
StrongPeak == Num(4, 5)
MinConfidence == Num(1, 5)
ExceedsStrongPeak(v) == Ge(v, StrongPeak)
\* Mutant: the candidate is held to the strong-peak threshold.
BelowStrongPeak(v) == Lt(v, StrongPeak)

\* bestVal < 0.2 (tuner.ts 152)
BelowMinConfidence(v) == Lt(v, MinConfidence)

RECURSIVE CrossingFrom(_, _, _)
\* The for loop of findFirstNegativeCrossing from index tau on.
CrossingFrom(a, tau, minTau) ==
    IF ~(tau < Length(a) - 1) THEN minTau
    ELSE IF Ge(At(a, tau - 1), IntNum(0)) /\ Lt(At(a, tau), IntNum(0)) THEN tau
    ELSE CrossingFrom(a, tau + 1, minTau)

\* Mutant: a crossing at or above minTau is given up for minTau.
findFirstNegativeCrossingBelowMinTau(a, minTau) ==
    IF CrossingFrom(a, 1, minTau) < minTau THEN CrossingFrom(a, 1, minTau)
    ELSE minTau

findFirstNegativeCrossing(a, minTau) == CrossingFrom(a, 1, minTau)

\* Mutant: the left neighbour is not compared.
IsLocalMaximumNoLeft(a, tau) == Ge(At(a, tau), At(a, tau + 1))

\* Mutant: a value equal to its left neighbour counts as a local maximum.
IsLocalMaximumOnPlateau(a, tau) ==
    Ge(At(a, tau), At(a, tau - 1)) /\ Ge(At(a, tau), At(a, tau + 1))

\* Mutant: a missing left neighbour (tau = 0) counts as smaller.
IsLocalMaximumAtZero(a, tau) ==
    /\ tau - 1 \notin DOMAIN a \/ Gt(At(a, tau), At(a, tau - 1))
    /\ Ge(At(a, tau), At(a, tau + 1))

\* The test that makes tau a local maximum (tuner.ts 120).
IsLocalMaximum(a, tau) ==
    Gt(At(a, tau), At(a, tau - 1)) /\ Ge(At(a, tau), At(a, tau + 1))

RECURSIVE BestFromNoBreak(_, _, _, _)
\* Mutant: the loop does not break at a strong peak.
BestFromNoBreak(a, tau, maxTau, best) ==
    IF ~(tau < maxTau /\ tau < Length(a) - 1) THEN best
    ELSE IF IsLocalMaximum(a, tau) /\ Gt(At(a, tau), best.bestVal)
    THEN BestFromNoBreak(a, tau + 1, maxTau, [bestTau |-> tau, bestVal |-> At(a, tau)])
    ELSE BestFromNoBreak(a, tau + 1, maxTau, best)

RECURSIVE BestFromLastTieWins(_, _, _, _)
\* Mutant: a local maximum equal to the best so far replaces it.
BestFromLastTieWins(a, tau, maxTau, best) ==
    IF ~(tau < maxTau /\ tau < Length(a) - 1) THEN best
    ELSE IF IsLocalMaximum(a, tau) THEN
        LET nb == IF Ge(At(a, tau), best.bestVal)
                  THEN [bestTau |-> tau, bestVal |-> At(a, tau)]
                  ELSE best
        IN IF ExceedsStrongPeak(At(a, tau)) THEN nb
           ELSE BestFromLastTieWins(a, tau + 1, maxTau, nb)
    ELSE BestFromLastTieWins(a, tau + 1, maxTau, best)

RECURSIVE BestFrom(_, _, _, _)
\* The for loop of findBestLocalMaximum from index tau on, with the best
\* candidate so far; the break leaves the loop at a strong peak.
BestFrom(a, tau, maxTau, best) ==
    IF ~(tau < maxTau /\ tau < Length(a) - 1) THEN best
    ELSE IF IsLocalMaximum(a, tau) THEN
        LET nb == IF Gt(At(a, tau), best.bestVal)
                  THEN [bestTau |-> tau, bestVal |-> At(a, tau)]
                  ELSE best
        IN IF ExceedsStrongPeak(At(a, tau)) THEN nb
           ELSE BestFrom(a, tau + 1, maxTau, nb)
    ELSE BestFrom(a, tau + 1, maxTau, best)

findBestLocalMaximum(a, startTau, maxTau) ==
    BestFrom(a, startTau, maxTau, [bestTau |-> -1, bestVal |-> NegInfinity])

\* ------------------------------------------------------- detectPitch
\* rms = sqrt(sum / length) and the test rms < minRms.  sqrt is increasing
\* and the threshold is a non-negative grid value, so the test is decided by
\* sum / length < minRms^2; an empty buffer gives 0/0 = NaN, never below.
MeanSquare(buf) == Div(IntNum(SumSquares(buf, Length(buf))), IntNum(Length(buf)))

\* Mutant: the sum of squares is not divided by the length.
RmsBelowNoMean(buf, threshold) ==
    /\ threshold > 0
    /\ SumSquares(buf, Length(buf)) < threshold * threshold

\* Mutant: the gate also rejects an RMS equal to the threshold.
RmsBelowOrEqual(buf, threshold) ==
    /\ threshold > 0
    /\ Le(MeanSquare(buf), IntNum(threshold * threshold))

\* rms < minRms, with rms = Math.sqrt(sum / buffer.length)
RmsBelow(buf, threshold) ==
    /\ threshold > 0
    /\ Lt(MeanSquare(buf), IntNum(threshold * threshold))

\* Parabolic interpolation (tuner.ts 155-159).
RefinedTau(a, bestTau) ==
    LET alpha == At(a, bestTau - 1)
        beta  == At(a, bestTau)
        gamma == At(a, bestTau + 1)
        denom == Sub(Sub(alpha, Mul(IntNum(2), beta)), Sub(IntNum(0), gamma))
    IN IF EqNum(denom, IntNum(0)) THEN IntNum(bestTau)
       ELSE Sub(IntNum(bestTau),
                Div(Mul(Num(1, 2), Sub(alpha, gamma)), denom))

\* Mutant: the rejection of a missing or weak candidate (tuner.ts 152) is left out.
detectPitchNoReject(buf, rate, threshold) ==
    IF RmsBelow(buf, threshold)
    THEN [gated |-> TRUE, nsdf |-> <<>>,
          sel |-> [start |-> -1, bestTau |-> -1, bestVal |-> NegInfinity],
          ret |-> Null]
    ELSE
        LET a == computeNsdf(buf)
            start == findFirstNegativeCrossing(a, rate \div HighestHz)
            best == findBestLocalMaximum(a, start, rate \div LowestHz)
        IN [gated |-> FALSE, nsdf |-> a,
            sel |-> [start |-> start, bestTau |-> best.bestTau, bestVal |-> best.bestVal],
            ret |-> Div(IntNum(rate), RefinedTau(a, best.bestTau))]

\* The whole of detectPitch: what it computed on the way and what it returned.
detectPitch(buf, rate, threshold) ==
    IF RmsBelow(buf, threshold)
    THEN [gated |-> TRUE, nsdf |-> <<>>,
          sel |-> [start |-> -1, bestTau |-> -1, bestVal |-> NegInfinity],
          ret |-> Null]
    ELSE
        LET a == computeNsdf(buf)
            maxTau == rate \div LowestHz
            minTau == rate \div HighestHz
            start == findFirstNegativeCrossing(a, minTau)
            best == findBestLocalMaximum(a, start, maxTau)
            s == [start |-> start, bestTau |-> best.bestTau, bestVal |-> best.bestVal]
        IN IF best.bestTau < 0 \/ BelowMinConfidence(best.bestVal)
           THEN [gated |-> FALSE, nsdf |-> a, sel |-> s, ret |-> Null]
           ELSE [gated |-> FALSE, nsdf |-> a, sel |-> s,
                 ret |-> Div(IntNum(rate), RefinedTau(a, best.bestTau))]

\* -------------------------------------------------------------- inputs
\* Amplitudes -1, -1/2, 0, 1/2, 1 in units of 1/2.
Samples == {-2, -1, 0, 1, 2}
Buffers == UNION {[0..(n - 1) -> Samples] : n \in 0..MaxLen}
\* 150 Hz: maxTau = 3 cuts the window inside the buffer, minTau = 0.
\* 1200, 2400, 3600 Hz: minTau = 1, 2, 3 and maxTau beyond the buffer.
SampleRates == {150, 1200, 2400, 3600}
\* minRms = 0 (the gate never fires) and minRms = 1/2.
Thresholds == {0, 1}

NoSel == [start |-> -1, bestTau |-> -1, bestVal |-> NegInfinity]
NoLocals == [midiExact |-> 0, midiRounded |-> 0, noteIndex |-> 0]
NoCall == [buffer |-> <<>>, sampleRate |-> 0, minRms |-> 0, ret |-> Null]

\* The startTuner calls of one run.
SessionIds == {1, 2}
\* A startTuner call that has not been made: no AudioContext, no stream, no
\* source, timerId null, getUserMedia not rejected, nothing thrown, no
\* onResult call, stop never called.
NoSession ==
    [pc |-> "none", audioCtx |-> "none", stream |-> "none", source |-> "none",
     timerId |-> "null", rejectedWith |-> "none", thrown |-> "none",
     onResults |-> 0, stops |-> 0, resultsAfterStop |-> 0]
NoSessions == [i \in SessionIds |-> NoSession]
\* The Tuner component as created: permission idle, no result, not running,
\* no message, stopFn null (0), no handleStart awaiting, mounted.
NoUi ==
    [permission |-> "idle", result |-> Null, isRunning |-> FALSE,
     errorMessage |-> "", stopFn |-> 0, awaiting |-> 0, mounted |-> TRUE]

Init ==
    /\ op = "detectPitch"
    /\ pc = "call"
    /\ buffer \in Buffers
    /\ sampleRate \in SampleRates
    /\ minRms \in Thresholds
    /\ nsdf = <<>>
    /\ sel = NoSel
    /\ hz = 0 /\ midi = 0 /\ locals = NoLocals
    /\ ret = Null
    /\ prev = NoCall
    /\ session = NoSessions /\ onResultCalls = <<>> /\ ui = NoUi

\* A mutant of DetectPitch: the buffer is rectified in place while its
\* energy is summed.
DetectPitchInPlace ==
    /\ op = "detectPitch" /\ pc = "call"
    /\ \E out \in {detectPitch(buffer, sampleRate, minRms)} :
          /\ nsdf' = out.nsdf
          /\ sel' = out.sel
          /\ ret' = out.ret
    /\ buffer' = [j \in DOMAIN buffer |-> Abs(buffer[j])]
    /\ pc' = "done"
    /\ UNCHANGED <<op, sampleRate, minRms, hz, midi, locals, prev,
                 session, onResultCalls, ui>>

\* detectPitch(buffer, sampleRate, minRms) runs to its return.
DetectPitch ==
    /\ op = "detectPitch" /\ pc = "call"
    /\ \E out \in {detectPitch(buffer, sampleRate, minRms)} :
          /\ nsdf' = out.nsdf
          /\ sel' = out.sel
          /\ ret' = out.ret
    /\ pc' = "done"
    /\ UNCHANGED <<op, buffer, sampleRate, minRms, hz, midi, locals, prev,
                 session, onResultCalls, ui>>

Next == DetectPitch

Spec == Init /\ [][Next]_vars

\* ------------------------------------------------ one call after another
\* The caller's buffers in the runs of repeated calls: four samples.
CallBuffers == [0..3 -> {-2, -1, 0}]
\* maxTau = 3 inside the buffer, and maxTau beyond it.
CallRates == {150, 1200}

InitCalls ==
    /\ op = "detectPitch"
    /\ pc = "call"
    /\ buffer \in CallBuffers
    /\ sampleRate \in CallRates
    /\ minRms \in Thresholds
    /\ nsdf = <<>>
    /\ sel = NoSel
    /\ hz = 0 /\ midi = 0 /\ locals = NoLocals
    /\ ret = Null
    /\ prev = NoCall
    /\ session = NoSessions /\ onResultCalls = <<>> /\ ui = NoUi

\* The caller notes the call that returned, refills the buffer (or leaves it
\* as the call left it) and calls again.  What the last call left in nsdf,
\* sel and ret is still there when the next one starts.
CallAgain ==
    /\ op = "detectPitch" /\ pc = "done"
    /\ prev' = [buffer |-> buffer, sampleRate |-> sampleRate,
                minRms |-> minRms, ret |-> ret]
    /\ buffer' \in CallBuffers
    /\ sampleRate' \in CallRates
    /\ minRms' \in Thresholds
    /\ pc' = "call"
    /\ UNCHANGED <<op, nsdf, sel, hz, midi, locals, ret, session, onResultCalls, ui>>

NextCalls == DetectPitch \/ CallAgain

SpecCalls == InitCalls /\ [][NextCalls]_vars

\* ============================================ binary64 arithmetic, exactly
(***************************************************************************)
(* computeNsdf on buffers of mixed magnitude, where binary64 sums round.   *)
(* A sample is an integer multiple of q = 2^-27 (1.0 is 2^27 q), so every  *)
(* product is an integer multiple of q^2 = 2^-54.  A Number is held        *)
(* exactly as sign * (hi * 2^27 + lo) in units of q^2, and every sum and   *)
(* difference is rounded to 53 significant bits, ties to even, as IEEE-754 *)
(* binary64 does.  Products of two binary32 samples have at most 48        *)
(* significant bits and are exact, as they are in the code.                *)
(***************************************************************************)
\* Longest buffer drawn for the binary64 runs.
MaxLen64 == 3

Limb == 2^27
\* 1.0 in units of q.
One64 == 2^27
BigZero == [s |-> 0, hi |-> 0, lo |-> 0]
\* sign * (hi * Limb + lo) with the limbs made canonical.
BigNorm(sgn, hi, lo) ==
    LET h == hi + (lo \div Limb)
        l == lo % Limb
    IN IF h = 0 /\ l = 0 THEN BigZero ELSE [s |-> sgn, hi |-> h, lo |-> l]
BigIsZero(a) == a.s = 0
MagLt(a, b) == a.hi < b.hi \/ (a.hi = b.hi /\ a.lo < b.lo)
MagEq(a, b) == a.hi = b.hi /\ a.lo = b.lo
\* |a| - |b| for |a| >= |b|, with sign sgn.
MagSub(sgn, a, b) ==
    IF a.lo >= b.lo THEN BigNorm(sgn, a.hi - b.hi, a.lo - b.lo)
    ELSE BigNorm(sgn, a.hi - b.hi - 1, a.lo + Limb - b.lo)
BigNeg(a) == [s |-> -a.s, hi |-> a.hi, lo |-> a.lo]
\* a + b, exact.
BigAdd(a, b) ==
    IF a.s = 0 THEN b
    ELSE IF b.s = 0 THEN a
    ELSE IF a.s = b.s THEN BigNorm(a.s, a.hi + b.hi, a.lo + b.lo)
    ELSE IF MagEq(a, b) THEN BigZero
    ELSE IF MagLt(a, b) THEN MagSub(b.s, b, a)
    ELSE MagSub(a.s, a, b)
\* x * y for samples x, y (integers of magnitude at most 2^27), exact.
BigProduct(x, y) ==
    LET ax == Abs(x)
        ay == Abs(y)
        xh == ax \div 2^14
        xl == ax % 2^14
        yh == ay \div 2^14
        yl == ay % 2^14
        mid == xh * yl + xl * yh
        low == xl * yl
    IN BigNorm(Sign(x) * Sign(y),
               2 * xh * yh + (mid \div 2^13) + (low \div Limb),
               (mid % 2^13) * 2^14 + (low % Limb))

\* The number of bits by which the magnitude exceeds 53 significant bits.
ExcessBits(a) ==
    IF a.hi < 2^26 THEN 0
    ELSE IF a.hi < 2^27 THEN 1
    ELSE IF a.hi < 2^28 THEN 2
    ELSE IF a.hi < 2^29 THEN 3
    ELSE IF a.hi < 2^30 THEN 4
    ELSE 5
\* Round to nearest binary64, ties to even.
Round53(a) ==
    LET e == ExcessBits(a)
        unit == 2^e
        rem == a.lo % unit
        down == a.lo - rem
        roundUp == \/ 2 * rem > unit
                   \/ (2 * rem = unit /\ (down \div unit) % 2 = 1)
    IN IF e = 0 \/ rem = 0 THEN a
       ELSE IF roundUp THEN BigNorm(a.s, a.hi, down + unit)
       ELSE BigNorm(a.s, a.hi, down)

\* The binary64 operations a + b and a - b.
Add64(a, b) == Round53(BigAdd(a, b))
Sub64(a, b) == Round53(BigAdd(a, BigNeg(b)))

RECURSIVE SumSquares64(_, _)
\* The accumulation m += buffer[j] * buffer[j], each step rounded.
SumSquares64(buf, upTo) ==
    IF upTo = 0 THEN BigZero
    ELSE Add64(SumSquares64(buf, upTo - 1), BigProduct(buf[upTo - 1], buf[upTo - 1]))

RECURSIVE Autocorrelation64(_, _, _)
\* The accumulation r += buffer[j] * buffer[j + tau], each step rounded.
Autocorrelation64(buf, tau, upTo) ==
    IF upTo <= 0 THEN BigZero
    ELSE Add64(Autocorrelation64(buf, tau, upTo - 1),
               BigProduct(buf[upTo - 1], buf[upTo - 1 + tau]))

RECURSIVE Denominator64(_, _)
\* m after iteration tau's update, each operation rounded; m *= 2 is exact.
Denominator64(buf, tau) ==
    IF tau = 0
    THEN LET e == SumSquares64(buf, Length(buf)) IN BigAdd(e, e)
    ELSE Sub64(Denominator64(buf, tau - 1),
               Add64(BigProduct(buf[tau - 1], buf[tau - 1]),
                     BigProduct(buf[Length(buf) - tau], buf[Length(buf) - tau])))

\* nsdf[tau] before the store: 0 when m === 0, else the quotient (2 * r) / m,
\* kept as its numerator and denominator.
NsdfAt64(buf, tau) ==
    LET r == Autocorrelation64(buf, tau, Length(buf) - tau)
        m == Denominator64(buf, tau)
    IN IF BigIsZero(m) THEN [k |-> "num", n |-> BigZero, d |-> BigProduct(1, 1)]
       ELSE [k |-> "num", n |-> BigAdd(r, r), d |-> m]

computeNsdf64(buf) == [tau \in 0..(Length(buf) - 1) |-> NsdfAt64(buf, tau)]

\* |a| div 2^23.
MagShift23(a) == BigNorm(1, a.hi \div 2^23, (a.hi % 2^23) * 16 + (a.lo \div 2^23))
\* The quotient is at least 1 + 2^-23 in magnitude: the binary32 stored for
\* it is greater than 1 (or less than -1).
StoredOutsideUnit(v) ==
    /\ MagLt(v.d, v.n)
    /\ MagLt(MagShift23(v.d), MagSub(1, v.n, v.d))

\* Quiet samples 1q, 2q, 3q (about 7.5e-9 to 2.2e-8), silence and full scale.
Samples64 == {0, 1, 2, 3, One64}
Buffers64 == UNION {[0..(n - 1) -> Samples64] : n \in 1..MaxLen64}

Init64 ==
    /\ op = "computeNsdf"
    /\ pc = "call"
    /\ buffer \in Buffers64
    /\ sampleRate = 0
    /\ minRms = 0
    /\ nsdf = <<>>
    /\ sel = NoSel
    /\ hz = 0 /\ midi = 0 /\ locals = NoLocals
    /\ ret = Null
    /\ prev = NoCall
    /\ session = NoSessions /\ onResultCalls = <<>> /\ ui = NoUi

\* computeNsdf(buffer) runs to its return.
ComputeNsdf64 ==
    /\ op = "computeNsdf" /\ pc = "call"
    /\ nsdf' = computeNsdf64(buffer)
    /\ pc' = "done"
    /\ UNCHANGED <<op, buffer, sampleRate, minRms, sel, hz, midi, locals, ret, prev,
                 session, onResultCalls, ui>>

Next64 == ComputeNsdf64

Spec64 == Init64 /\ [][Next64]_vars

\* ======================================================= the pitch mapper
(***************************************************************************)
(* Frequencies and MIDI numbers on the equal-tempered logarithmic axis.    *)
(* A frequency is held as its position on that axis: the integer p stands  *)
(* for 440 * 2^(p / (12 * Semitone)) Hz, so 440 Hz is position A4 = 0, a   *)
(* semitone up is Semitone positions and a doubling is 12 * Semitone.  A   *)
(* MIDI number, fractional or not, is held in the same unit: the integer v *)
(* stands for v / Semitone.  On this axis 12 * Math.log2(hz / 440) and     *)
(* 440 * Math.pow(2, x / 12) are shifts by the origin, and what remains of *)
(* them is the rounding of their results to a representable Number.  Near  *)
(* MIDI 69 consecutive Numbers are 2^-46 semitone apart, while consecutive *)
(* frequencies near 440 Hz are about 2^-49 semitone apart: the Numbers a   *)
(* MIDI value can take are several times coarser than the frequencies.     *)
(* Here a frequency may be any position and a MIDI value only a multiple   *)
(* of HzPerUlp, rounded to nearest, ties to even.                          *)
(***************************************************************************)
\* Representable MIDI values per half cent.
UlpsPerHalfCent == 2
\* Representable frequencies per representable MIDI value.
HzPerUlp == 2

\* frequencyToMidiExact / midiToFrequency: MIDI 69 is 440 Hz, position 0.
A4Midi == 69
A4 == 0
\* analyseFrequency: (midiExact - midiRounded) * 100, midiRounded % 12.
CentsPerSemitone == 100
SemitonesPerOctave == 12

HalfCent == UlpsPerHalfCent * HzPerUlp
Cent == 2 * HalfCent
Semitone == CentsPerSemitone * Cent

\* The Number nearest to x among the MIDI values, ties to even.
RoundToUlp(x) ==
    LET q == x \div HzPerUlp
        r == x - q * HzPerUlp
    IN  IF 2 * r < HzPerUlp THEN q * HzPerUlp
        ELSE IF 2 * r > HzPerUlp THEN (q + 1) * HzPerUlp
        ELSE IF q % 2 = 0 THEN q * HzPerUlp ELSE (q + 1) * HzPerUlp

\* A mutant of midiToFrequency: the origin is middle C (MIDI 60).
midiToFrequencyFromC4(m) == A4 + (m - 60 * Semitone)

\* 12 * Math.log2(hz / 440) + 69
frequencyToMidiExact(f) == RoundToUlp(f - A4) + A4Midi * Semitone
\* 440 * Math.pow(2, (midi - 69) / 12)
midiToFrequency(m) == A4 + (m - A4Midi * Semitone)

\* A mutant of MathRound: Math.floor.
MathFloor(x, unit) == x \div unit
\* A mutant of MathRound: halves round away from zero.
MathRoundHalfAway(x, unit) ==
    IF x >= 0 THEN (2 * x + unit) \div (2 * unit)
    ELSE -((2 * (-x) + unit) \div (2 * unit))

\* Math.round(x / unit) = floor(x / unit + 1/2): halves round toward +Infinity.
MathRound(x, unit) == (2 * x + unit) \div (2 * unit)
\* a % b of JavaScript: the remainder takes the sign of the dividend.
JsRem(a, b) == Sign(a) * (Abs(a) % b)

NOTE_NAMES == <<"C", "C#", "D", "D#", "E", "F", "F#", "G", "G#", "A", "A#", "B">>
\* NOTE_NAMES[i]; an index outside the array reads undefined.
NoteName(i) == IF i \in 0..(Len(NOTE_NAMES) - 1) THEN NOTE_NAMES[i + 1] ELSE "undefined"

\* A mutant of noteIndex: the remainder is not wrapped into 0..11.
noteIndexNoWrap(midiRounded) == JsRem(midiRounded, SemitonesPerOctave)
\* ((midiRounded % 12) + 12) % 12
noteIndex(midiRounded) ==
    JsRem(JsRem(midiRounded, SemitonesPerOctave) + SemitonesPerOctave, SemitonesPerOctave)

\* A mutant of octave: the quotient is truncated instead of floored.
octaveTruncated(midiRounded) ==
    Sign(midiRounded) * (Abs(midiRounded) \div SemitonesPerOctave) - 1
\* Math.floor(midiRounded / 12) - 1
octave(midiRounded) == (midiRounded \div SemitonesPerOctave) - 1

analyseFrequency(f) ==
    LET midiExact == frequencyToMidiExact(f)
        midiRounded == MathRound(midiExact, Semitone)
        cents == MathRound(midiExact - midiRounded * Semitone, Cent)
    IN  [locals |-> [midiExact |-> midiExact, midiRounded |-> midiRounded,
                     noteIndex |-> noteIndex(midiRounded)],
         ret |-> [note |-> NoteName(noteIndex(midiRounded)),
                  octave |-> octave(midiRounded),
                  cents |-> cents,
                  targetFrequency |-> midiToFrequency(midiRounded * Semitone)]]

\* MIDI notes -13 (below C-1) to 82, and every frequency between them.
MidiNotes == (-13)..82
HzGrid == midiToFrequency((-13) * Semitone)..midiToFrequency(82 * Semitone)

InitMapper ==
    /\ op \in {"analyseFrequency", "roundTripHz", "roundTripMidi"}
    /\ pc = "call"
    /\ IF op = "roundTripMidi" THEN midi \in MidiNotes /\ hz = A4
                               ELSE hz \in HzGrid /\ midi = 0
    /\ buffer = <<>> /\ sampleRate = 0 /\ minRms = 0
    /\ nsdf = <<>> /\ sel = NoSel
    /\ locals = NoLocals
    /\ ret = Null
    /\ prev = NoCall
    /\ session = NoSessions /\ onResultCalls = <<>> /\ ui = NoUi

\* analyseFrequency(hz) runs to its return.
AnalyseFrequency ==
    /\ op = "analyseFrequency" /\ pc = "call"
    /\ \E out \in {analyseFrequency(hz)} :
          /\ locals' = out.locals
          /\ ret' = out.ret
    /\ pc' = "done"
    /\ UNCHANGED <<op, buffer, sampleRate, minRms, nsdf, sel, hz, midi, prev,
                 session, onResultCalls, ui>>

\* midiToFrequency(frequencyToMidiExact(hz))
RoundTripHz ==
    /\ op = "roundTripHz" /\ pc = "call"
    /\ ret' = midiToFrequency(frequencyToMidiExact(hz))
    /\ pc' = "done"
    /\ UNCHANGED <<op, buffer, sampleRate, minRms, nsdf, sel, hz, midi, locals, prev,
                 session, onResultCalls, ui>>

\* const freq = midiToFrequency(midi); frequencyToMidiExact(freq)
RoundTripMidi ==
    /\ op = "roundTripMidi" /\ pc = "call"
    /\ hz' = midiToFrequency(midi * Semitone)
    /\ ret' = frequencyToMidiExact(hz')
    /\ pc' = "done"
    /\ UNCHANGED <<op, buffer, sampleRate, minRms, nsdf, sel, midi, locals, prev,
                 session, onResultCalls, ui>>

NextMapper == AnalyseFrequency \/ RoundTripHz \/ RoundTripMidi

SpecMapper == InitMapper /\ [][NextMapper]_vars

\* ============================================================ startTuner
(***************************************************************************)
(* A session is one call of startTuner: the AudioContext it creates, the   *)
(* stream getUserMedia gives it, the source node, the polling interval and *)
(* the stop function it returns.  Callbacks run to completion, so each     *)
(* step below is one callback or one stretch of startTuner between awaits. *)
(* The interval callback fires only while its timer is set.  The detected  *)
(* frequency is a fraction in Hz; its place on the logarithmic axis is not *)
(* computed here, so analyseFrequency is run at any of DetectedPositions.  *)
(***************************************************************************)
\* onResult calls followed per session.
MaxTicks == 2
\* Calls of one session's stop function followed.
MaxStops == 2

\* The names of the errors getUserMedia rejects with; "" is a rejection that
\* is no Error object.
ErrorNames ==
    {"NotAllowedError", "PermissionDeniedError", "SecurityError", "TypeError",
     "NotFoundError", "DevicesNotFoundError", "AbortError", ""}

\* new AudioContext(), then getUserMedia is awaited.
startTunerCalled(s) == [s EXCEPT !.pc = "getUserMedia", !.audioCtx = "running"]

\* A mutant of getUserMediaRejected: the catch block is missing, the code
\* after it runs with no stream.
getUserMediaRejectedFallsThrough(s, err) ==
    [s EXCEPT !.pc = "polling", !.source = "connected", !.timerId = "set"]
\* catch (err) { audioCtx.close(); throw err; }
getUserMediaRejected(s, err) ==
    [s EXCEPT !.pc = "rejected", !.audioCtx = "closed", !.thrown = err]

\* The stream arrives: source connected to the analyser, interval set, the
\* stop function returned.
getUserMediaResolved(s) ==
    [s EXCEPT !.pc = "polling", !.stream = "live", !.source = "connected",
              !.timerId = "set"]

\* A mutant of stopFn: the interval is not cleared.
stopFnKeepsInterval(s) ==
    [s EXCEPT !.source = "disconnected", !.stream = "stopped",
              !.audioCtx = "closed", !.stops = s.stops + 1]
\* The function startTuner returns.
stopFn(s) ==
    [s EXCEPT !.timerId = IF s.timerId = "null" THEN "null" ELSE "cleared",
              !.source = "disconnected", !.stream = "stopped",
              !.audioCtx = "closed", !.stops = s.stops + 1]

\* { frequency: hz, ...analysis }
TunerResult(frequency, analysis) ==
    [frequency |-> frequency, note |-> analysis.note, octave |-> analysis.octave,
     cents |-> analysis.cents, targetFrequency |-> analysis.targetFrequency]

\* A mutant of TickCalls: the return after onResult(null) is missing.
TickCallsNoReturn(frequency, analysis) ==
    (IF frequency = Null THEN <<Null>> ELSE <<>>)
        \o <<TunerResult(frequency, analysis)>>
\* The onResult calls of one interval callback, in order.
TickCalls(frequency, analysis) ==
    IF frequency = Null THEN <<Null>>
    ELSE <<TunerResult(frequency, analysis)>>

\* The buffers a tick captures: the caller's buffers of period two, among
\* them silence, quiet ones the gate rejects and pitched ones.
TickBuffers == {b \in CallBuffers : b[0] = b[2] /\ b[1] = b[3]}

\* Where a detected frequency may lie: A4, 55 cents above it, MIDI -1.
DetectedPositions == {A4, A4 + 55 * Cent, midiToFrequency(-Semitone)}

\* One interval callback of session i on a freshly captured buffer b.
TickOf(i, b) ==
    /\ session[i].timerId = "set"
    /\ session[i].onResults < MaxTicks
    /\ buffer' = b
    /\ \E out \in {detectPitch(b, sampleRate, minRms)} :
       \E p \in IF out.ret = Null THEN {hz} ELSE DetectedPositions :
       \E a \in {analyseFrequency(p)} :
       \E calls \in {TickCalls(out.ret, a.ret)} :
          /\ nsdf' = out.nsdf /\ sel' = out.sel /\ ret' = out.ret
          /\ hz' = p
          /\ locals' = IF out.ret = Null THEN locals ELSE a.locals
          /\ onResultCalls' = calls
          /\ session' = [session EXCEPT
                ![i].onResults = @ + Len(calls),
                ![i].resultsAfterStop =
                    @ + (IF session[i].stops > 0 THEN Len(calls) ELSE 0)]

InitSession ==
    /\ op = "startTuner"
    /\ pc = "run"
    /\ buffer = <<>>
    /\ sampleRate \in CallRates
    /\ minRms \in Thresholds
    /\ nsdf = <<>> /\ sel = NoSel
    /\ hz = A4 /\ midi = 0 /\ locals = NoLocals
    /\ ret = Null
    /\ prev = NoCall
    /\ session = NoSessions /\ onResultCalls = <<>> /\ ui = NoUi

\* A caller calls startTuner(onResult, options).
StartTuner ==
    /\ op = "startTuner"
    /\ \E i \in SessionIds :
          /\ session[i].pc = "none"
          /\ \A j \in SessionIds : j < i => session[j].pc # "none"
          /\ session' = [session EXCEPT ![i] = startTunerCalled(@)]
    /\ UNCHANGED <<op, pc, buffer, sampleRate, minRms, nsdf, sel, hz, midi,
                   locals, ret, prev, onResultCalls, ui>>

GetUserMediaResolves ==
    /\ op = "startTuner"
    /\ \E i \in SessionIds :
          /\ session[i].pc = "getUserMedia"
          /\ session' = [session EXCEPT ![i] = getUserMediaResolved(@)]
    /\ UNCHANGED <<op, pc, buffer, sampleRate, minRms, nsdf, sel, hz, midi,
                   locals, ret, prev, onResultCalls, ui>>

GetUserMediaRejects ==
    /\ op = "startTuner"
    /\ \E i \in SessionIds, err \in ErrorNames :
          /\ session[i].pc = "getUserMedia"
          /\ session' = [session EXCEPT
                ![i] = [getUserMediaRejected(@, err) EXCEPT !.rejectedWith = err]]
    /\ UNCHANGED <<op, pc, buffer, sampleRate, minRms, nsdf, sel, hz, midi,
                   locals, ret, prev, onResultCalls, ui>>

\* The interval fires: capture, detect, analyse, report.
Tick ==
    /\ op = "startTuner"
    /\ \E i \in SessionIds, b \in TickBuffers : TickOf(i, b)
    /\ UNCHANGED <<op, pc, sampleRate, minRms, midi, prev, ui>>

\* The caller calls the stop function a session returned.
Stop ==
    /\ op = "startTuner"
    /\ \E i \in SessionIds :
          /\ session[i].pc = "polling"
          /\ session[i].stops < MaxStops
          /\ session' = [session EXCEPT ![i] = stopFn(@)]
    /\ UNCHANGED <<op, pc, buffer, sampleRate, minRms, nsdf, sel, hz, midi,
                   locals, ret, prev, onResultCalls, ui>>

NextSession ==
    StartTuner \/ GetUserMediaResolves \/ GetUserMediaRejects \/ Tick \/ Stop

SpecSession == InitSession /\ [][NextSession]_vars

\* ===================================================== the Tuner component
(***************************************************************************)
(* Tuner.tsx: four signals (permission, result, isRunning, errorMessage),  *)
(* the variable stopFn, and the handlers handleStart, handleStop and the   *)
(* onCleanup callback.  handleStart awaits startTuner, so the step that    *)
(* calls startTuner and the step that runs after the await are separate;   *)
(* ui.awaiting is the session the pending handleStart waits for.  The      *)
(* Start button is rendered while isRunning is false and disabled while    *)
(* permission is "requesting"; the Stop button is rendered while isRunning *)
(* is true; an unmounted component takes no clicks.                        *)
(***************************************************************************)
DeniedMessage ==
    "Microphone access was denied. Please allow microphone access in your browser settings and try again."
SecureContextMessage ==
    "Microphone access is not available. Please ensure you are using HTTPS or localhost."
NoMicrophoneMessage ==
    "No microphone was found. Please connect a microphone and try again."
GenericMessage ==
    "Could not access the microphone. Please check your browser and device settings."

\* handleStart up to the await: the three signals are reset.
handleStartCalled(u, i) ==
    [u EXCEPT !.permission = "requesting", !.result = Null,
              !.errorMessage = "", !.awaiting = i]

\* handleStart after the await resolved with session i's stop function.
handleStartResolved(u, i) ==
    [u EXCEPT !.stopFn = i, !.permission = "granted", !.isRunning = TRUE,
              !.awaiting = 0]

\* A mutant of handleStartCaught: only the two standard names are told apart
\* from the rest.
handleStartCaughtStandardNames(u, name) ==
    IF name = "NotAllowedError"
    THEN [u EXCEPT !.permission = "denied", !.errorMessage = DeniedMessage,
                   !.awaiting = 0]
    ELSE IF name = "NotFoundError"
    THEN [u EXCEPT !.permission = "error", !.errorMessage = NoMicrophoneMessage,
                   !.awaiting = 0]
    ELSE [u EXCEPT !.permission = "error", !.errorMessage = GenericMessage,
                   !.awaiting = 0]
\* handleStart's catch block; name is err.name, or "" when err is no Error.
handleStartCaught(u, name) ==
    IF name = "NotAllowedError" \/ name = "PermissionDeniedError"
    THEN [u EXCEPT !.permission = "denied", !.errorMessage = DeniedMessage,
                   !.awaiting = 0]
    ELSE IF name = "SecurityError" \/ name = "TypeError"
    THEN [u EXCEPT !.permission = "error", !.errorMessage = SecureContextMessage,
                   !.awaiting = 0]
    ELSE IF name = "NotFoundError" \/ name = "DevicesNotFoundError"
    THEN [u EXCEPT !.permission = "error", !.errorMessage = NoMicrophoneMessage,
                   !.awaiting = 0]
    ELSE [u EXCEPT !.permission = "error", !.errorMessage = GenericMessage,
                   !.awaiting = 0]

\* handleStop after stopFn?.(): the signals go back to idle.
handleStopDone(u) ==
    [u EXCEPT !.stopFn = 0, !.isRunning = FALSE, !.result = Null,
              !.permission = "idle"]

\* stopFn?.() on the sessions.
CallStopFn(ss, i) == IF i = 0 THEN ss ELSE [ss EXCEPT ![i] = stopFn(@)]

StartButtonEnabled ==
    ui.mounted /\ ~ui.isRunning /\ ui.permission # "requesting"
StopButtonShown == ui.mounted /\ ui.isRunning

InitComponent ==
    /\ op = "Tuner"
    /\ pc = "run"
    /\ buffer = <<>>
    /\ sampleRate \in CallRates
    /\ minRms \in Thresholds
    /\ nsdf = <<>> /\ sel = NoSel
    /\ hz = A4 /\ midi = 0 /\ locals = NoLocals
    /\ ret = Null
    /\ prev = NoCall
    /\ session = NoSessions /\ onResultCalls = <<>> /\ ui = NoUi

\* The Start button is clicked: handleStart runs up to its await.
ClickStart ==
    /\ op = "Tuner" /\ StartButtonEnabled
    /\ \E i \in SessionIds :
          /\ session[i].pc = "none"
          /\ \A j \in SessionIds : j < i => session[j].pc # "none"
          /\ session' = [session EXCEPT ![i] = startTunerCalled(@)]
          /\ ui' = handleStartCalled(ui, i)
    /\ UNCHANGED <<op, pc, buffer, sampleRate, minRms, nsdf, sel, hz, midi,
                   locals, ret, prev, onResultCalls>>

\* getUserMedia resolves: startTuner returns its stop function and
\* handleStart continues after its await, mounted or not.
StartResolves ==
    /\ op = "Tuner"
    /\ \E i \in SessionIds :
          /\ session[i].pc = "getUserMedia" /\ ui.awaiting = i
          /\ session' = [session EXCEPT ![i] = getUserMediaResolved(@)]
          /\ ui' = handleStartResolved(ui, i)
    /\ UNCHANGED <<op, pc, buffer, sampleRate, minRms, nsdf, sel, hz, midi,
                   locals, ret, prev, onResultCalls>>

\* getUserMedia rejects: startTuner rethrows and handleStart catches.
StartRejects ==
    /\ op = "Tuner"
    /\ \E i \in SessionIds, err \in ErrorNames :
          /\ session[i].pc = "getUserMedia" /\ ui.awaiting = i
          /\ session' = [session EXCEPT
                ![i] = [getUserMediaRejected(@, err) EXCEPT !.rejectedWith = err]]
          /\ ui' = handleStartCaught(ui, session'[i].thrown)
    /\ UNCHANGED <<op, pc, buffer, sampleRate, minRms, nsdf, sel, hz, midi,
                   locals, ret, prev, onResultCalls>>

\* A session's interval fires; onResult is (r) => setResult(r).
TickUi ==
    /\ op = "Tuner"
    /\ \E i \in SessionIds, b \in TickBuffers :
          /\ TickOf(i, b)
          /\ ui' = [ui EXCEPT !.result = onResultCalls'[Len(onResultCalls')]]
    /\ UNCHANGED <<op, pc, sampleRate, minRms, midi, prev>>

\* The Stop button is clicked: handleStop.
ClickStop ==
    /\ op = "Tuner" /\ StopButtonShown
    /\ session' = CallStopFn(session, ui.stopFn)
    /\ ui' = handleStopDone(ui)
    /\ UNCHANGED <<op, pc, buffer, sampleRate, minRms, nsdf, sel, hz, midi,
                   locals, ret, prev, onResultCalls>>

\* The component is disposed: the onCleanup callback runs.
Unmount ==
    /\ op = "Tuner" /\ ui.mounted
    /\ session' = CallStopFn(session, ui.stopFn)
    /\ ui' = [ui EXCEPT !.mounted = FALSE]
    /\ UNCHANGED <<op, pc, buffer, sampleRate, minRms, nsdf, sel, hz, midi,
                   locals, ret, prev, onResultCalls>>

NextComponent ==
    ClickStart \/ StartResolves \/ StartRejects \/ TickUi \/ ClickStop \/ Unmount

SpecComponent == InitComponent /\ [][NextComponent]_vars

\* ============================================================== claims
Returned == op = "detectPitch" /\ pc = "done"
\* The buffer's RMS is strictly below minRms: mean(x^2) < minRms^2, minRms > 0.
RmsStrictlyBelow ==
    /\ Length(buffer) > 0 /\ minRms > 0
    /\ SumSquares(buffer, Length(buffer)) < Length(buffer) * minRms * minRms
AllZero == \A j \in DOMAIN buffer : buffer[j] = 0

\* C1: a buffer whose RMS is strictly below minRms yields no estimate,
\* whatever periodic content it has.
C1_QuietIsNull == (Returned /\ RmsStrictlyBelow) => ret = Null
\* A gated buffer that the pipeline would have given a pitch without the gate.
C1_Witness ==
    /\ Returned /\ RmsStrictlyBelow /\ ret = Null
    /\ detectPitch(buffer, sampleRate, 0).ret # Null

\* C2: an all-zero buffer yields no estimate, for every length, sample rate
\* and minRms, minRms = 0 included.
C2_SilenceIsNull == (Returned /\ AllZero) => ret = Null
\* A silent buffer that passed the gate (minRms = 0) and whose NSDF was computed.
C2_Witness ==
    /\ Returned /\ AllZero /\ Length(buffer) = MaxLen /\ minRms = 0
    /\ Length(nsdf) = MaxLen /\ ret = Null

\* C3: every value detectPitch returns other than null is a strictly
\* positive, finite frequency.
C3_PositiveFinite == (Returned /\ ret # Null) => (IsNum(ret) /\ ret.n > 0)
\* A returned frequency whose lag was refined off the integer grid.
C3_Witness ==
    /\ Returned /\ ret # Null /\ IsNum(ret) /\ ret.n > 0
    /\ ~EqNum(RefinedTau(nsdf, sel.bestTau), IntNum(sel.bestTau))

\* C4: computeNsdf returns one value per lag 0..N-1 and every value lies in
\* the closed range [-1, 1].
C4_NsdfInUnitRange ==
    (op = "computeNsdf" /\ pc = "done") =>
        /\ DOMAIN nsdf = 0..(Length(buffer) - 1)
        /\ \A tau \in DOMAIN nsdf : ~StoredOutsideUnit(nsdf[tau])

\* C5: for every buffer with non-zero total energy the NSDF value at lag 0 is 1.
C5_LagZeroIsOne ==
    (Returned /\ Length(nsdf) > 0 /\ SumSquares(buffer, Length(buffer)) > 0)
        => nsdf[0] = IntNum(1)
\* A non-silent buffer whose NSDF was computed and is not 1 everywhere.
C5_Witness ==
    /\ Returned /\ Length(nsdf) > 1 /\ ~AllZero
    /\ nsdf[0] = IntNum(1) /\ nsdf[1] # IntNum(1)

Analysed == op = "analyseFrequency" /\ pc = "done"
\* The call analysed the exact equal-tempered frequency of MIDI note k.
AnalysedNote(k) == Analysed /\ hz = midiToFrequency(k * Semitone)

\* C6: on the exact equal-tempered frequency of an integer MIDI note k,
\* negative k included, analyseFrequency reports 0 cents, the note name at
\* index k mod 12, octave floor(k / 12) - 1 and a target frequency equal to
\* the input.
C6_ExactNote ==
    \A k \in MidiNotes :
        AnalysedNote(k) =>
            ret = [note |-> NOTE_NAMES[(k % 12) + 1],
                   octave |-> -1 + (k - (k % 12)) \div 12,
                   cents |-> 0,
                   targetFrequency |-> hz]
\* MIDI -1, a negative note: B in octave -2.
C6_Witness ==
    /\ AnalysedNote(-1)
    /\ ret.note = "B" /\ ret.octave = -2 /\ ret.cents = 0

\* C7: for every positive finite frequency the reported cents value is an
\* integer in [-50, 50].
C7_CentsInRange == Analysed => ret.cents \in (-50)..50
\* A pitch just under half a semitone sharp of its note: +50 cents, and the
\* difference that was rounded is not a whole number of cents.
C7_Witness ==
    /\ Analysed /\ ret.cents = 50
    /\ (locals.midiExact - locals.midiRounded * Semitone) % Cent # 0

\* C8: for a pitch an integer number of cents c from A4,
\* 100 * (12 * (octave + 1) + noteIndex - 69) + cents = c.
C8_Recombines ==
    (Analysed /\ (hz - A4) % Cent = 0) =>
        /\ ret.note = NoteName(locals.noteIndex)
        /\ 100 * (12 * (ret.octave + 1) + locals.noteIndex - 69) + ret.cents
              = (hz - A4) \div Cent
\* 55 cents above A4 wraps into the next note: A sharp 4, 45 cents flat.
C8_Witness ==
    /\ Analysed /\ hz = A4 + 55 * Cent
    /\ ret.note = "A#" /\ ret.octave = 4 /\ ret.cents = -45

RoundTrippedHz == op = "roundTripHz" /\ pc = "done"
RoundTrippedMidi == op = "roundTripMidi" /\ pc = "done"
\* a and b differ by at most one rounding of a MIDI value.
WithinRounding(a, b) == 2 * Abs(a - b) <= HzPerUlp

MidiHalfWay == locals.midiExact % Semitone = Semitone \div 2
\* The difference that is rounded to cents, and whether it is exactly half
\* way between two integers.
CentsExact == locals.midiExact - locals.midiRounded * Semitone
CentsHalfWay == CentsExact % Cent = HalfCent

\* C10 as stated: both rounding steps round exact halves away from zero
\* (-49.5 cents rounds to -50; MIDI position -0.5 rounds to note -1).
C10_HalvesAwayFromZero ==
    Analysed =>
        /\ MidiHalfWay =>
              locals.midiRounded * Semitone =
                  IF locals.midiExact > 0 THEN locals.midiExact + Semitone \div 2
                                          ELSE locals.midiExact - Semitone \div 2
        /\ CentsHalfWay =>
              ret.cents * Cent =
                  IF CentsExact > 0 THEN CentsExact + HalfCent
                                    ELSE CentsExact - HalfCent

\* C10, amended: both rounding steps round exact halves toward +Infinity
\* (-49.5 cents rounds to -49; MIDI position -0.5 rounds to note 0).
C10_HalvesTowardPlusInfinity ==
    Analysed =>
        /\ MidiHalfWay =>
              locals.midiRounded * Semitone = locals.midiExact + Semitone \div 2
        /\ CentsHalfWay => ret.cents * Cent = CentsExact + HalfCent
\* MIDI position -0.5 is reported as C in octave -1 (note 0), 50 cents flat.
C10_Witness ==
    /\ Analysed /\ MidiHalfWay /\ locals.midiExact = -(Semitone \div 2)
    /\ locals.midiRounded = 0 /\ ret.note = "C" /\ ret.octave = -1
    /\ ret.cents = -50

Polled == op = "startTuner" /\ buffer # <<>>
\* The five fields of a result record, each with a value.
FullRecord(r) ==
    /\ DOMAIN r = {"note", "octave", "cents", "frequency", "targetFrequency"}
    /\ \E k \in 1..Len(NOTE_NAMES) : r.note = NOTE_NAMES[k]
    /\ r.octave \in Int /\ r.cents \in Int /\ r.targetFrequency \in Int
    /\ IsNum(r.frequency)

\* C13: every polling tick of a running session makes exactly one onResult
\* call: onResult(null) when detectPitch gives no estimate for the captured
\* buffer, otherwise one record with all five fields, its frequency the
\* detected value.
C13_OneResultPerTick ==
    /\ [](Polled =>
            /\ Len(onResultCalls) = 1
            /\ ret = detectPitch(buffer, sampleRate, minRms).ret
            /\ ret = Null => onResultCalls[1] = Null
            /\ ret # Null =>
                  (FullRecord(onResultCalls[1]) /\ onResultCalls[1].frequency = ret))
    /\ [][\A i \in SessionIds :
            \/ session'[i].onResults = session[i].onResults
            \/ /\ session'[i].onResults = session[i].onResults + 1
               /\ session[i].timerId = "set"]_vars
\* A tick that delivered a record, after a tick of the same session.
C13_Witness ==
    /\ Polled /\ ret # Null /\ Len(onResultCalls) = 1
    /\ FullRecord(onResultCalls[1]) /\ onResultCalls[1].frequency = ret
    /\ \E i \in SessionIds : session[i].onResults = MaxTicks

\* C14: once a session's stop function has been called, onResult is never
\* invoked again for it, and its interval is cleared, its source
\* disconnected, its tracks stopped and its AudioContext closed.
C14_StoppedStaysSilent ==
    \A i \in SessionIds :
        (op = "startTuner" /\ session[i].stops > 0) =>
            /\ session[i].resultsAfterStop = 0
            /\ session[i].timerId = "cleared"
            /\ session[i].source = "disconnected"
            /\ session[i].stream = "stopped"
            /\ session[i].audioCtx = "closed"
\* Session 1 stopped after one tick, with ticks to spare, while session 2
\* went on and delivered all of its own.
C14_Witness ==
    /\ op = "startTuner"
    /\ session[1].stops > 0 /\ session[1].onResults = 1
    /\ session[1].resultsAfterStop = 0
    /\ session[2].stops = 0 /\ session[2].onResults = MaxTicks

\* C15: when getUserMedia is rejected, startTuner closes the AudioContext it
\* created, rejects with the same error, never starts the interval and never
\* calls onResult.
C15_RejectionCleansUp ==
    \A i \in SessionIds :
        (op = "startTuner" /\ session[i].rejectedWith # "none") =>
            /\ session[i].pc = "rejected"
            /\ session[i].audioCtx = "closed"
            /\ session[i].thrown = session[i].rejectedWith
            /\ session[i].timerId = "null"
            /\ session[i].onResults = 0
\* Session 1 rejected with NotAllowedError while session 2 polls.
C15_Witness ==
    /\ op = "startTuner"
    /\ session[1].rejectedWith = "NotAllowedError"
    /\ session[1].thrown = "NotAllowedError" /\ session[1].audioCtx = "closed"
    /\ session[2].onResults > 0

\* The component is stopped (idle, nothing pending) or unmounted.
StoppedOrUnmounted ==
    op = "Tuner" /\ (~ui.mounted \/ (~ui.isRunning /\ ui.awaiting = 0))

\* C16: for every interleaving of the Start click, the resolution of the
\* pending startTuner call, the Stop click and the unmount, the stop function
\* of each session startTuner resolved has been called exactly once when the
\* component is stopped or unmounted, so no session polls after unmount.
C16_StopFnCalledOnce ==
    StoppedOrUnmounted =>
        \A i \in SessionIds :
            session[i].pc = "polling" =>
                (session[i].stops = 1 /\ session[i].timerId = "cleared")

ExpectedPermission(name) ==
    IF name \in {"NotAllowedError", "PermissionDeniedError"} THEN "denied"
    ELSE "error"
ExpectedMessage(name) ==
    CASE name \in {"NotAllowedError", "PermissionDeniedError"} -> DeniedMessage
      [] name \in {"SecurityError", "TypeError"} -> SecureContextMessage
      [] name \in {"NotFoundError", "DevicesNotFoundError"} -> NoMicrophoneMessage
      [] OTHER -> GenericMessage

\* C17: when startTuner rejects, the component stays not running and shows
\* no result; permission is "denied" for NotAllowedError and
\* PermissionDeniedError and "error" otherwise, with the secure-context
\* message for SecurityError and TypeError, the no-microphone message for
\* NotFoundError and DevicesNotFoundError and the generic message for the
\* rest; the Start button is usable again.
C17_RejectionShown ==
    [][\A i \in SessionIds :
         (op = "Tuner" /\ session[i].rejectedWith = "none"
                      /\ session'[i].rejectedWith # "none") =>
            /\ ui'.isRunning = FALSE
            /\ ui'.result = Null
            /\ ui'.permission = ExpectedPermission(session'[i].rejectedWith)
            /\ ui'.errorMessage = ExpectedMessage(session'[i].rejectedWith)
            /\ ui'.mounted => StartButtonEnabled']_vars
\* A second start, after a session that delivered results and was stopped,
\* is rejected with PermissionDeniedError.
C17_Witness ==
    /\ op = "Tuner"
    /\ session[1].onResults > 0 /\ session[1].stops = 1
    /\ session[2].rejectedWith = "PermissionDeniedError"
    /\ ui.permission = "denied" /\ ui.errorMessage = DeniedMessage
    /\ ~ui.isRunning /\ ui.result = Null /\ StartButtonEnabled

\* The buffer's RMS is exactly minRms: mean(x^2) = minRms^2.
RmsEqualsThreshold ==
    /\ Length(buffer) > 0
    /\ SumSquares(buffer, Length(buffer)) = Length(buffer) * minRms * minRms

\* C18 as stated: detection is attempted only when the RMS exceeds the
\* threshold; a buffer whose RMS is exactly minRms yields no estimate, like
\* one strictly below it.
C18_EqualRmsIsNull == (Returned /\ RmsEqualsThreshold) => ret = Null

\* C18, amended: detection is attempted when the RMS is at least the
\* threshold; a buffer whose RMS is exactly minRms passes the gate and gets
\* the result it would get with no gate at all, and only a buffer strictly
\* below minRms is rejected by the gate.
C18_EqualRmsPassesGate ==
    /\ (Returned /\ RmsEqualsThreshold) =>
          (Length(nsdf) = Length(buffer)
              /\ ret = detectPitch(buffer, sampleRate, 0).ret)
    /\ (Returned /\ RmsStrictlyBelow) => (ret = Null /\ nsdf = <<>>)
\* A buffer of half-scale samples at minRms = 1/2 that yields a frequency.
C18_Witness ==
    /\ Returned /\ RmsEqualsThreshold /\ minRms > 0
    /\ ret # Null /\ IsNum(ret)

\* The window of candidate lags and its local maxima, read off the NSDF the
\* call computed (nsdf is empty when the gate returned first).
\* The lags at which the NSDF goes from >= 0 to < 0.
CrossingLags ==
    {tau \in 1..(Length(nsdf) - 2) :
        Ge(nsdf[tau - 1], IntNum(0)) /\ Lt(nsdf[tau], IntNum(0))}
WindowStart ==
    IF CrossingLags = {} THEN sampleRate \div HighestHz
    ELSE CHOOSE tau \in CrossingLags : \A u \in CrossingLags : tau <= u
Window ==
    {tau \in 0..(Length(nsdf) - 2) :
        WindowStart <= tau /\ tau < sampleRate \div LowestHz}
LocalMaxima ==
    {tau \in Window \ {0} :
        Gt(nsdf[tau], nsdf[tau - 1]) /\ Ge(nsdf[tau], nsdf[tau + 1])}
\* The local maxima the search looks at: those up to the first strong peak.
Considered ==
    {tau \in LocalMaxima :
        \A u \in LocalMaxima : u < tau => ~Ge(nsdf[u], StrongPeak)}
BestLocalMaximumWeak ==
    /\ LocalMaxima # {}
    /\ \A tau \in Considered : Lt(nsdf[tau], MinConfidence)
\* C19: detectPitch returns null in exactly three cases: the RMS gate fails,
\* the window [start, min(maxTau, N-1)) holds no local maximum, or the best
\* local maximum's NSDF value is below 0.2; in every other case it returns a
\* frequency, and it never throws.
C19_NullExactlyInThreeCases ==
    Returned =>
        /\ RmsStrictlyBelow => ret = Null
        /\ ~RmsStrictlyBelow =>
              /\ Length(nsdf) = Length(buffer)
              /\ ret = Null <=> (LocalMaxima = {} \/ BestLocalMaximumWeak)
        /\ ret # Null => IsNum(ret)
\* A buffer that passed a positive gate and had a local maximum in the
\* window, rejected because that maximum was below 0.2.
C19_Witness ==
    /\ Returned /\ minRms > 0 /\ ~RmsStrictlyBelow
    /\ LocalMaxima # {} /\ BestLocalMaximumWeak /\ ret = Null

\* The energy of the samples buffer[from .. to-1].
Energy(from, to) == SumSquares(buffer, to) - SumSquares(buffer, from)
NsdfComputed == Returned /\ Length(nsdf) = Length(buffer)
\* C20: at every lag tau in [0, N) the denominator computeNsdf maintains
\* incrementally equals the closed form
\* m(tau) = sum_{j=0..N-1} x[j]^2 + sum_{j=tau..N-1} x[j]^2.
C20_DenominatorIsClosedForm ==
    NsdfComputed =>
        \A tau \in DOMAIN buffer :
            Denominator(buffer, tau)
                = Energy(0, Length(buffer)) + Energy(tau, Length(buffer))
\* What the incremental update does keep: the energy of the two overlapping
\* windows, sum_{j=0..N-tau-1} x[j]^2 + sum_{j=tau..N-1} x[j]^2.
DenominatorIsWindowEnergy ==
    NsdfComputed =>
        \A tau \in DOMAIN buffer :
            Denominator(buffer, tau)
                = Energy(0, Length(buffer) - tau) + Energy(tau, Length(buffer))

\* The divisor of the parabolic refinement at the selected lag.
ParabolaDenom ==
    Sub(Sub(At(nsdf, sel.bestTau - 1), Mul(IntNum(2), At(nsdf, sel.bestTau))),
        Sub(IntNum(0), At(nsdf, sel.bestTau + 1)))
\* C21: nsdf(tau) is 0 at each lag whose denominator m(tau) is zero and
\* 2 r(tau) / m(tau) otherwise, and no quotient of the NSDF, of the parabolic
\* refinement or of sampleRate / refinedLag has a zero divisor: each is a
\* finite number (a zero divisor would give NaN or an infinity).
C21_DegenerateDenominatorsGuarded ==
    NsdfComputed =>
        /\ \A tau \in DOMAIN buffer :
              LET m == Denominator(buffer, tau)
                  r == Autocorrelation(buffer, tau, Length(buffer) - tau)
              IN /\ IsNum(nsdf[tau])
                 /\ m = 0 => nsdf[tau].n = 0
                 /\ m # 0 => nsdf[tau].n * m = 2 * r * nsdf[tau].d
        /\ ret # Null =>
              /\ IsNum(ParabolaDenom)
              /\ IsNum(RefinedTau(nsdf, sel.bestTau))
              /\ RefinedTau(nsdf, sel.bestTau).n # 0
              /\ IsNum(ret)
\* A buffer with energy, a lag whose overlap holds none of it, and a
\* frequency returned through the refinement.
C21_Witness ==
    /\ NsdfComputed /\ ~AllZero /\ ret # Null
    /\ \E tau \in DOMAIN buffer : Denominator(buffer, tau) = 0 /\ nsdf[tau].n = 0

\* Every index tau >= 1 (the last one included) at which the NSDF goes from
\* >= 0 to < 0.
CrossingIndices ==
    {tau \in 1..(Length(nsdf) - 1) :
        Ge(nsdf[tau - 1], IntNum(0)) /\ Lt(nsdf[tau], IntNum(0))}
FirstCrossingIndex ==
    CHOOSE tau \in CrossingIndices : \A u \in CrossingIndices : tau <= u
\* C22: whenever the NSDF has an index tau >= 1 with nsdf[tau-1] >= 0 and
\* nsdf[tau] < 0, the peak search starts at the smallest such index, up to
\* and including the last index N-1.
C22_SearchStartsAtFirstCrossing ==
    (NsdfComputed /\ CrossingIndices # {}) => sel.start = FirstCrossingIndex

MinTau == sampleRate \div HighestHz
MaxTau == sampleRate \div LowestHz
\* C23 as stated: with no crossing at any index below minTau the search
\* starts at minTau, also when a crossing exists at a larger index.
C23_NoCrossingBelowMinTauStartsAtMinTau ==
    (NsdfComputed /\ \A tau \in CrossingIndices : tau >= MinTau)
        => sel.start = MinTau
\* C23 amended: the search starts at the first crossing among the indices
\* 1..N-2 wherever it lies relative to minTau, and at minTau when the NSDF
\* has no crossing at all.
C23_FirstCrossingElseMinTau ==
    NsdfComputed =>
        /\ CrossingLags # {} => sel.start = FirstCrossingIndex
        /\ CrossingIndices = {} => sel.start = MinTau
\* No crossing below minTau, a first crossing above it, the search started
\* at the crossing and a frequency came out.
C23_Witness ==
    /\ NsdfComputed /\ CrossingLags # {} /\ MinTau >= 1
    /\ FirstCrossingIndex > MinTau /\ sel.start = FirstCrossingIndex
    /\ ret # Null

\* The local maxima of the window whose value exceeds 0.8.
StrongMaxima == {tau \in LocalMaxima : ExceedsStrongPeak(nsdf[tau])}
FirstStrongMaximum ==
    CHOOSE tau \in StrongMaxima : \A u \in StrongMaxima : tau <= u
\* The NSDF cut off after index upTo.
NsdfUpTo(upTo) == [tau \in 0..upTo |-> nsdf[tau]]
\* C24: if the window holds a local maximum whose value exceeds 0.8, the
\* selected lag is the earliest such local maximum, even when a later one is
\* taller, and nothing after it is examined: the selection is the one made
\* on the NSDF cut off after the selected lag's right neighbour.
C24_EarliestStrongPeakWins ==
    (NsdfComputed /\ StrongMaxima # {}) =>
        /\ sel.bestTau = FirstStrongMaximum
        /\ sel.bestVal = nsdf[FirstStrongMaximum]
        /\ findBestLocalMaximum(NsdfUpTo(FirstStrongMaximum + 1), sel.start, MaxTau)
              = [bestTau |-> sel.bestTau, bestVal |-> sel.bestVal]
\* A strong local maximum followed, inside the window, by a taller one.
C24_Witness ==
    /\ NsdfComputed /\ StrongMaxima # {}
    /\ sel.bestTau = FirstStrongMaximum /\ ret # Null
    /\ \E u \in LocalMaxima :
          u > FirstStrongMaximum /\ Gt(nsdf[u], nsdf[FirstStrongMaximum])

\* C25: if no local maximum of the window exceeds 0.8, the selected lag is
\* the local maximum of greatest NSDF value over the whole window, and among
\* local maxima sharing that value the one at the smallest lag.
C25_TallestWinsFirstOnTies ==
    (NsdfComputed /\ LocalMaxima # {} /\ StrongMaxima = {}) =>
        /\ sel.bestTau \in LocalMaxima
        /\ sel.bestVal = nsdf[sel.bestTau]
        /\ \A u \in LocalMaxima :
              /\ Ge(nsdf[sel.bestTau], nsdf[u])
              /\ EqNum(nsdf[u], nsdf[sel.bestTau]) => sel.bestTau <= u
\* Two local maxima sharing the greatest value, none strong: the earlier one
\* is selected.
C25_Witness ==
    /\ NsdfComputed /\ StrongMaxima = {} /\ sel.bestTau \in LocalMaxima
    /\ \E u \in LocalMaxima :
          u > sel.bestTau /\ EqNum(nsdf[u], nsdf[sel.bestTau])

\* The three NSDF values read for the interpolation and the lag it yields.
Alpha == At(nsdf, sel.bestTau - 1)
Beta == At(nsdf, sel.bestTau)
Gamma == At(nsdf, sel.bestTau + 1)
RefinedLag == RefinedTau(nsdf, sel.bestTau)
Refined == Returned /\ ret # Null
\* The parabola through (-1, Alpha), (0, Beta), (1, Gamma) is
\* Beta + (Gamma - Alpha)/2 x + (Alpha - 2 Beta + Gamma)/2 x^2; where it has
\* curvature its vertex is at x = (Alpha - Gamma) / (2 (Alpha - 2 Beta + Gamma)).
VertexOffset == Div(Mul(Num(1, 2), Sub(Alpha, Gamma)), ParabolaDenom)
\* C26: the refined lag is the vertex of the parabola through the three NSDF
\* points around the selected lag, so it lies above tau when gamma > alpha,
\* below tau when alpha > gamma and at tau when alpha = gamma.
C26_RefinedLagIsVertex ==
    Refined =>
        /\ ~EqNum(ParabolaDenom, IntNum(0)) =>
              EqNum(Sub(RefinedLag, IntNum(sel.bestTau)), VertexOffset)
        /\ Gt(Gamma, Alpha) => Gt(RefinedLag, IntNum(sel.bestTau))
        /\ Gt(Alpha, Gamma) => Lt(RefinedLag, IntNum(sel.bestTau))
        /\ EqNum(Alpha, Gamma) => EqNum(RefinedLag, IntNum(sel.bestTau))

\* C28: at every lag handed to the refiner alpha - 2 beta + gamma is strictly
\* negative, so the zero-denominator branch is not taken there, and the
\* refined lag is within half a sample: tau - 1/2 <= refinedLag < tau + 1/2.
C28_RefinedWithinHalfSample ==
    Refined =>
        /\ Lt(ParabolaDenom, IntNum(0))
        /\ Ge(RefinedLag, Sub(IntNum(sel.bestTau), Num(1, 2)))
        /\ Lt(RefinedLag, Sub(IntNum(sel.bestTau), Num(-1, 2)))
\* A selected lag whose right neighbour equals it: the refined lag is the
\* lower end tau - 1/2.
C28_Witness ==
    /\ Refined /\ Lt(ParabolaDenom, IntNum(0)) /\ EqNum(Beta, Gamma)
    /\ EqNum(RefinedLag, Sub(IntNum(sel.bestTau), Num(1, 2)))

\* findBestLocalMaximum found a candidate (bestTau is not -1).
Selected == NsdfComputed /\ sel.bestTau # -1
\* C29: a selected lag tau satisfies 1 <= tau <= N-2, tau < maxTau and
\* tau >= the search start, so tau-1, tau and tau+1 are indices of the NSDF
\* array, for every buffer length and sample rate, minTau = 0 included.
C29_SelectedLagInsideArray ==
    Selected =>
        /\ 1 <= sel.bestTau /\ sel.bestTau <= Length(buffer) - 2
        /\ sel.bestTau < MaxTau
        /\ sel.bestTau >= sel.start
        /\ {sel.bestTau - 1, sel.bestTau, sel.bestTau + 1} \subseteq DOMAIN nsdf
        /\ IsNum(Alpha) /\ IsNum(Beta) /\ IsNum(Gamma)
\* A sample rate below 1200 and no crossing: the search started at lag 0,
\* a lag was selected and a frequency returned.
C29_Witness ==
    /\ Selected /\ MinTau = 0 /\ sel.start = 0 /\ ret # Null
    /\ sel.bestTau = Length(buffer) - 2

\* C30: the selected lag is never below minTau = floor(sampleRate / 1200),
\* also when the first negative crossing lies at an index below minTau.
C30_SelectedLagAtLeastMinTau == Selected => sel.bestTau >= MinTau

=============================================================================
